---- MODULE Spec2Model ----
(***************************************************************************)
(* Lobby / turn state machine of the card game session engine              *)
(* (src/lobby.py).  One action per public operation of Player / Lobby and  *)
(* one per scheduled asyncio task.  Every handler is translated as a       *)
(* function on a record holding the whole lobby, so that a Python          *)
(* exception raised half way through a handler leaves exactly the          *)
(* assignments made before the raise.                                      *)
(***************************************************************************)
EXTENDS Integers, Sequences, FiniteSets, Bags, TLC

VARIABLES
    players,         \* Lobby.players: the roster, a list
    lead,            \* Lobby.lead (None when absent)
    owner,           \* Lobby.owner (None when unset)
    grave,           \* Lobby.grave
    table,           \* Lobby.table: list of CardOnTable
    punchlines,      \* Lobby.punchlines: Deck (cards: list, dump: bag)
    setups,          \* Lobby.setups: Deck
    settings,        \* Lobby.settings
    turn_count,      \* Lobby.turn_count
    is_game_endless, \* Lobby.is_game_endless
    state,           \* Lobby.state: the phase object (name, setup, timer, winner)
    hand,            \* Player.hand, per player (a bag of cards)
    score,           \* Player.score
    is_ready,        \* Player.is_ready
    is_connected,    \* Player.is_connected
    tasks,           \* asyncio tasks created and neither finished nor cancelled
    epoch,           \* number of Turns phases entered so far (round identity)
    end_turn_runs,   \* number of times Turns.end_turn ran in the current round
    refreshes,       \* number of refresh_hand calls that drew a new hand
    removals,        \* number of Lobby.remove_player calls so far
    disconnects,     \* number of Player.disconnect calls so far
    restarts,        \* number of Finished.start_game calls so far
    installed,       \* the punchline cards handed to the last start_game
    dropped,         \* players who disconnected in this round before submitting
    leads            \* the leads of the rounds since the last join or removal

vars == <<players, lead, owner, grave, table, punchlines, setups, settings,
          turn_count, is_game_endless, state, hand, score, is_ready,
          is_connected, tasks, epoch, end_turn_runs, refreshes, removals,
          disconnects, restarts, installed, dropped,
          leads>>

\* ------------------------------------------------------------------ bounds
\* Lobby.HAND_SIZE is 10 in the source; the model deals hands of this size.
HAND_SIZE == 2
\* Turns phases entered in one behaviour.
MaxEpoch == 2
\* refresh_hand calls that draw, remove_player calls and disconnect calls in
\* one behaviour.
MaxRefresh == 2
MaxRemove == 1
MaxDisconnect == 1
\* Cards of the setup deck handed to start_game.
NumSetups == 1
\* Runs of Turns.end_turn counted per round (the counter stops there).
MaxRuns == 2

Players == {1, 2, 3}
None == 0
\* The punchline deck handed to start_game: enough cards for every hand, one
\* table entry per player and one redeal, so that a draw never finds both
\* piles empty unless hands grow beyond HAND_SIZE.
NumCards == Cardinality(Players) * (HAND_SIZE + 1) + HAND_SIZE
Cards == 1..NumCards
\* A punchline deck that two hands and one more card use up.
SmallDeck == 2 * HAND_SIZE + 1
SetupCards == 1..NumSetups
\* Outcomes of random.shuffle the model distinguishes: ascending and
\* descending order of the cards.
Shuffles == {"keep", "reverse"}

\* ----------------------------------------------------------------- helpers
Reverse(s) == [i \in 1..Len(s) |-> s[Len(s) + 1 - i]]

Shuffle(s, sh) == IF sh = "reverse" THEN Reverse(s) ELSE s

Min(S) == CHOOSE x \in S : \A y \in S : x <= y

RECURSIVE BagToSeq(_)
\* a bag of cards as a list (ascending), the order random.shuffle starts from
BagToSeq(b) ==
    IF DOMAIN b = {} THEN <<>>
    ELSE LET c == Min(DOMAIN b) IN <<c>> \o BagToSeq(b (-) SetToBag({c}))

RECURSIVE SeqToBag(_)
SeqToBag(s) == IF s = <<>> THEN EmptyBag ELSE SetToBag({Head(s)}) (+) SeqToBag(Tail(s))

SeqRange(s) == {s[i] : i \in 1..Len(s)}

RemoveAt(s, i) == SubSeq(s, 1, i - 1) \o SubSeq(s, i + 1, Len(s))

Count(c, b) == IF c \in DOMAIN b THEN b[c] ELSE 0

RECURSIVE SortTable(_)
\* the table entries in ascending order of their cards
SortTable(t) ==
    IF t = <<>> THEN <<>>
    ELSE LET m == Min({t[i].card : i \in 1..Len(t)})
             k == CHOOSE i \in 1..Len(t) : t[i].card = m
         IN  <<t[k]>> \o SortTable(RemoveAt(t, k))

\* Deck(cards): a new deck, shuffled by the constructor
Deck(cards, sh) == [cards |-> Shuffle(cards, sh), dump |-> EmptyBag]

\* ------------------------------------------------------- the lobby record
\* The lobby and its players as one value: the fields are the variables, plus
\* exc, the exception the handler running on it has raised ("ok" when none).
Raise(l, e) == [l EXCEPT !.exc = e]
Ok(l) == l.exc = "ok"

One(c) == SetToBag({c})

\* ---------------------------------------------------------------- Deck
\* get_card with a refill that leaves the dump as it is
get_card_keep_dump(d, sh) ==
    LET cards == IF d.cards = <<>> THEN Shuffle(BagToSeq(d.dump), sh) ELSE d.cards
    IN  IF cards = <<>>
        THEN [deck |-> [cards |-> <<>>, dump |-> EmptyBag], card |-> None, ok |-> FALSE]
        ELSE [deck |-> [cards |-> SubSeq(cards, 1, Len(cards) - 1), dump |-> d.dump],
              card |-> cards[Len(cards)], ok |-> TRUE]

\* Deck.get_card: refill from the dump when the draw pile is empty, then pop
\* the last card; ok is FALSE when list.pop raises IndexError.
get_card(d, sh) ==
    LET cards == IF d.cards = <<>> THEN Shuffle(BagToSeq(d.dump), sh) ELSE d.cards
        dump == IF d.cards = <<>> THEN EmptyBag ELSE d.dump
    IN  IF cards = <<>>
        THEN [deck |-> [cards |-> <<>>, dump |-> EmptyBag], card |-> None, ok |-> FALSE]
        ELSE [deck |-> [cards |-> SubSeq(cards, 1, Len(cards) - 1), dump |-> dump],
              card |-> cards[Len(cards)], ok |-> TRUE]

\* Deck.dump
dump(d, cards) == [d EXCEPT !.dump = @ (+) cards]

\* player.add_punchline_card(self.punchlines.get_card())
add_punchline_card(l, pl, sh) ==
    LET r == get_card(l.punchlines, sh)
    IN  IF r.ok
        THEN [l EXCEPT !.punchlines = r.deck, !.hand[pl] = @ (+) One(r.card)]
        ELSE Raise([l EXCEPT !.punchlines = r.deck], "IndexError")

\* ---------------------------------------------------------------- Lobby
all_players(l) == IF l.lead = None THEN l.players ELSE <<l.lead>> \o l.players

\* Lobby.card_on_table_of: the position of the player's first table entry, 0
\* when the player has none
card_on_table_of(l, player) ==
    IF \E i \in 1..Len(l.table) : l.table[i].player = player
    THEN Min({i \in 1..Len(l.table) : l.table[i].player = player})
    ELSE 0

\* change_owner without the is_connected test
change_owner_first(l) ==
    LET ap == all_players(l)
    IN  [l EXCEPT !.owner = IF ap = <<>> THEN None ELSE ap[1]]

\* Lobby.change_owner
change_owner(l) ==
    LET ap == all_players(l)
        C == {i \in 1..Len(ap) : l.is_connected[ap[i]]}
    IN  [l EXCEPT !.owner = IF C = {} THEN None ELSE ap[Min(C)]]

\* Lobby.transit_to
transit_to(l, new_state) == [l EXCEPT !.state = new_state]

NewState(name, setup, timer, winner) ==
    [name |-> name, setup |-> setup, timer |-> timer, winner |-> winner]

\* change_lead that puts the outgoing lead back at the front of the roster
change_lead_front(l) ==
    LET l1 == IF l.lead # None THEN [l EXCEPT !.players = <<l.lead>> \o @] ELSE l
    IN  IF l1.players = <<>>
        THEN Raise(l1, "IndexError")
        ELSE [l1 EXCEPT !.lead = Head(l1.players), !.players = Tail(l1.players)]

\* Lobby.change_lead
change_lead(l) ==
    LET l1 == IF l.lead # None THEN [l EXCEPT !.players = Append(@, l.lead)] ELSE l
    IN  IF l1.players = <<>>
        THEN Raise(l1, "IndexError")
        ELSE [l1 EXCEPT !.lead = Head(l1.players), !.players = Tail(l1.players)]

RECURSIVE start_turn_deal(_, _, _)
\* the loop of Lobby.start_turn over all_players
start_turn_deal(l, ps, sh) ==
    IF ps = <<>> \/ ~Ok(l) THEN l
    ELSE LET pl == Head(ps)
             l1 == [l EXCEPT !.is_ready[pl] = FALSE]
             l2 == IF BagCardinality(l1.hand[pl]) # HAND_SIZE
                   THEN add_punchline_card(l1, pl, sh)
                   ELSE l1
         IN  start_turn_deal(l2, Tail(ps), sh)

TimerTask(id) == [kind |-> "turn_timer", id |-> id, setup |-> None, winner |-> None]

\* Lobby.start_turn
Lobby_start_turn(l, sh) ==
    LET l1 == change_lead(l)
        r == get_card(l1.setups, sh)
        l2 == [l1 EXCEPT !.setups = r.deck]
        id == l.epoch + 1
        l3 == [l2 EXCEPT !.turn_count = @ + 1,
                         !.epoch = id,
                         !.end_turn_runs = 0,
                         !.dropped = {},
                         !.leads = Append(@, l1.lead),
                         !.tasks = IF l2.settings.turn_duration # None
                                   THEN @ \cup {TimerTask(id)} ELSE @]
        l4 == transit_to(l3, NewState("Turns", r.card, id, None))
    IN  IF ~Ok(l1) THEN l1
        ELSE IF ~r.ok THEN Raise(l2, "IndexError")
        ELSE start_turn_deal(l4, all_players(l4), sh)

\* ------------------------------------------------------------ Gathering
RECURSIVE deal_hand(_, _, _, _)
\* HAND_SIZE times pl.add_punchline_card(self.lobby.punchlines.get_card())
deal_hand(l, pl, n, sh) ==
    IF n = 0 \/ ~Ok(l) THEN l
    ELSE deal_hand(add_punchline_card(l, pl, sh), pl, n - 1, sh)

RECURSIVE deal_hands(_, _, _)
\* the loop of Gathering.start_game over all_players
deal_hands(l, ps, sh) ==
    IF ps = <<>> \/ ~Ok(l) THEN l
    ELSE deal_hands(deal_hand(l, Head(ps), HAND_SIZE, sh), Tail(ps), sh)

\* Gathering.start_game
Gathering_start_game(l, player, lobby_settings, new_setups, new_punchlines, sh) ==
    IF player # l.owner THEN Raise(l, "PlayerNotOwnerError")
    ELSE LET l1 == [l EXCEPT !.setups = new_setups,
                             !.punchlines = new_punchlines,
                             !.installed = SeqRange(new_punchlines.cards),
                             !.settings = lobby_settings]
             l2 == deal_hands(l1, all_players(l1), sh)
         IN  IF Ok(l2) THEN Lobby_start_turn(l2, sh) ELSE l2

\* ---------------------------------------------------------------- Turns
\* put_card_on_table without the removal of the player's previous entry
put_card_on_table_keep(l, player, card) ==
    IF Count(card, l.hand[player]) = 0 THEN Raise(l, "CardNotInPlayerHandError")
    ELSE [l EXCEPT !.table = Append(@, [card |-> card, player |-> player,
                                        is_open |-> FALSE]),
                   !.hand[player] = @ (-) One(card),
                   !.is_ready[player] = TRUE]

\* Turns.put_card_on_table
put_card_on_table(l, player, card) ==
    IF Count(card, l.hand[player]) = 0 THEN Raise(l, "CardNotInPlayerHandError")
    ELSE LET i == card_on_table_of(l, player)
             l1 == IF i # 0
                   THEN [l EXCEPT !.table = RemoveAt(@, i),
                                  !.hand[player] = @ (+) One(l.table[i].card)]
                   ELSE l
         IN  [l1 EXCEPT !.table = Append(@, [card |-> card, player |-> player,
                                             is_open |-> FALSE]),
                        !.hand[player] = @ (-) One(card),
                        !.is_ready[player] = TRUE]

RECURSIVE auto_submit_all(_, _, _)
\* the first loop of Turns.end_turn without the is_connected test, the
\* lowest card standing in where no card is drawn for the player
auto_submit_all(l, ps, ch) ==
    IF ps = <<>> \/ ~Ok(l) THEN l
    ELSE LET player == Head(ps)
             c == IF ch[player] # None THEN ch[player]
                  ELSE IF l.hand[player] # EmptyBag THEN Min(DOMAIN l.hand[player])
                  ELSE None
             l1 == IF ~l.is_ready[player]
                   THEN IF c = None THEN Raise(l, "IndexError")
                        ELSE put_card_on_table(l, player, c)
                   ELSE l
         IN  auto_submit_all(l1, Tail(ps), ch)

RECURSIVE auto_submit(_, _, _)
\* the first loop of Turns.end_turn; ch[player] is what random.choice returns
\* (None stands for the IndexError random.choice raises on an empty hand)
auto_submit(l, ps, ch) ==
    IF ps = <<>> \/ ~Ok(l) THEN l
    ELSE LET player == Head(ps)
             l1 == IF l.is_connected[player] /\ ~l.is_ready[player]
                   THEN IF ch[player] = None THEN Raise(l, "IndexError")
                        ELSE put_card_on_table(l, player, ch[player])
                   ELSE l
         IN  auto_submit(l1, Tail(ps), ch)

\* Turns.end_turn
Turns_end_turn(l, ch, sh) ==
    LET l0 == [l EXCEPT !.end_turn_runs = IF @ < MaxRuns THEN @ + 1 ELSE @]
        l1 == auto_submit(l0, l0.players, ch)
        l2 == [l1 EXCEPT !.table = Shuffle(SortTable(@), sh)]
    IN  IF ~Ok(l1) THEN l1
        ELSE IF l2.lead # None
        THEN transit_to(l2, NewState("Judgement", l2.state.setup, None, None))
        ELSE Raise(l2, "NotImplementedError")

\* Turns.try_end_turn
try_end_turn(l, ch, sh) ==
    IF \E i \in 1..Len(l.players) :
           l.is_connected[l.players[i]] /\ ~l.is_ready[l.players[i]]
    THEN l
    ELSE Turns_end_turn([l EXCEPT !.tasks = @ \ {TimerTask(l.state.timer)}], ch, sh)

\* Turns.remove_player
Turns_remove_player(l, player, ch, sh) == try_end_turn(l, ch, sh)

\* Turns.make_turn
Turns_make_turn(l, player, card, ch, sh) ==
    LET l1 == put_card_on_table(l, player, card)
    IN  IF Ok(l1) THEN try_end_turn(l1, ch, sh) ELSE l1

RECURSIVE draw_cards(_, _, _)
\* [self.lobby.punchlines.get_card() for _ in range(n)]: the deck after the
\* draws, the cards drawn, and whether every draw succeeded
draw_cards(d, n, sh) ==
    IF n = 0 THEN [deck |-> d, cards |-> EmptyBag, ok |-> TRUE]
    ELSE LET r == get_card(d, sh)
             rest == draw_cards(r.deck, n - 1, sh)
         IN  IF ~r.ok THEN [deck |-> r.deck, cards |-> EmptyBag, ok |-> FALSE]
             ELSE [deck |-> rest.deck, cards |-> rest.cards (+) One(r.card),
                   ok |-> rest.ok]

\* refresh_hand without the test of the score
Turns_refresh_hand_no_floor(l, player, sh) ==
    IF l.is_ready[player] THEN Raise(l, "PlayerAlreadyReadyError")
    ELSE LET r == draw_cards(l.punchlines, HAND_SIZE, sh)
             l1 == [l EXCEPT !.punchlines = dump(r.deck, l.hand[player]),
                             !.hand[player] = r.cards,
                             !.refreshes = @ + 1]
         IN  IF ~r.ok THEN Raise([l EXCEPT !.punchlines = r.deck], "IndexError")
             ELSE [l1 EXCEPT !.score[player] = @ - 1]

\* Turns.refresh_hand
Turns_refresh_hand(l, player, sh) ==
    IF l.is_ready[player] THEN Raise(l, "PlayerAlreadyReadyError")
    ELSE LET r == draw_cards(l.punchlines, HAND_SIZE, sh)
             l1 == [l EXCEPT !.punchlines = dump(r.deck, l.hand[player]),
                             !.hand[player] = r.cards,
                             !.refreshes = @ + 1]
         IN  IF ~r.ok THEN Raise([l EXCEPT !.punchlines = r.deck], "IndexError")
             ELSE IF l1.score[player] < 0 THEN Raise(l1, "ScoreTooLowError")
             ELSE [l1 EXCEPT !.score[player] = @ - 1]

\* ------------------------------------------------------------ Judgement
\* Lobby.get_card_from_table: the position of the entry holding the card
\* object; the caller's card is given as the position of the entry whose card
\* it is, 0 for a card that is on no entry
get_card_from_table(l, card) == IF card \in 1..Len(l.table) THEN card ELSE 0

\* Judgement.remove_player and Judgement.start_voting
Judgement_remove_player(l, player) ==
    IF player = l.lead THEN Raise(l, "NotImplementedError") ELSE l

\* Judgement.open_table_card
open_table_card(l, player, card_on_table) ==
    IF l.lead # player THEN Raise(l, "PlayerNotLeadError")
    ELSE [l EXCEPT !.table[card_on_table].is_open = TRUE]

Task(kind, l, winner) ==
    [kind |-> kind, id |-> l.epoch, setup |-> l.state.setup, winner |-> winner]

\* pick_turn_winner that dumps the table cards and leaves the entries on the
\* table
pick_turn_winner_keep_table(l, player, card) ==
    IF player # l.lead THEN Raise(l, "PlayerNotLeadError")
    ELSE IF \E i \in 1..Len(l.table) : ~l.table[i].is_open
    THEN Raise(l, "NotAllCardsOpenedError")
    ELSE IF get_card_from_table(l, card) = 0 THEN Raise(l, "NotImplementedError")
    ELSE LET w == l.table[get_card_from_table(l, card)].player
             l1 == [l EXCEPT !.score[w] = @ + 1,
                             !.state.winner = w,
                             !.punchlines =
                                 dump(@, SeqToBag([i \in 1..Len(l.table) |-> l.table[i].card]))]
             W == {i \in 1..Len(l1.players) :
                       l1.score[l1.players[i]] = l1.settings.winning_score}
         IN  IF ~l1.is_game_endless /\ W # {}
             THEN [l1 EXCEPT !.tasks = @ \cup {Task("finish_game", l1, l1.players[Min(W)])}]
             ELSE [l1 EXCEPT !.tasks = @ \cup {Task("start_turn", l1, None)}]

\* pick_turn_winner that looks for a winning score in the endless mode too
pick_turn_winner_endless_finish(l, player, card) ==
    IF player # l.lead THEN Raise(l, "PlayerNotLeadError")
    ELSE IF \E i \in 1..Len(l.table) : ~l.table[i].is_open
    THEN Raise(l, "NotAllCardsOpenedError")
    ELSE IF get_card_from_table(l, card) = 0 THEN Raise(l, "NotImplementedError")
    ELSE LET w == l.table[get_card_from_table(l, card)].player
             l1 == [l EXCEPT !.score[w] = @ + 1,
                             !.state.winner = w,
                             !.punchlines =
                                 dump(@, SeqToBag([i \in 1..Len(l.table) |-> l.table[i].card])),
                             !.table = <<>>]
             W == {i \in 1..Len(l1.players) :
                       l1.score[l1.players[i]] = l1.settings.winning_score}
         IN  IF W # {}
             THEN [l1 EXCEPT !.tasks = @ \cup {Task("finish_game", l1, l1.players[Min(W)])}]
             ELSE [l1 EXCEPT !.tasks = @ \cup {Task("start_turn", l1, None)}]

\* Judgement.pick_turn_winner
pick_turn_winner(l, player, card) ==
    IF player # l.lead THEN Raise(l, "PlayerNotLeadError")
    ELSE IF \E i \in 1..Len(l.table) : ~l.table[i].is_open
    THEN Raise(l, "NotAllCardsOpenedError")
    ELSE IF get_card_from_table(l, card) = 0 THEN Raise(l, "NotImplementedError")
    ELSE LET w == l.table[get_card_from_table(l, card)].player
             l1 == [l EXCEPT !.score[w] = @ + 1,
                             !.state.winner = w,
                             !.punchlines =
                                 dump(@, SeqToBag([i \in 1..Len(l.table) |-> l.table[i].card])),
                             !.table = <<>>]
             W == {i \in 1..Len(l1.players) :
                       l1.score[l1.players[i]] = l1.settings.winning_score}
         IN  IF ~l1.is_game_endless /\ W # {}
             THEN [l1 EXCEPT !.tasks = @ \cup {Task("finish_game", l1, l1.players[Min(W)])}]
             ELSE [l1 EXCEPT !.tasks = @ \cup {Task("start_turn", l1, None)}]

\* Judgement.start_turn and Finished.start_turn, on the phase object holding
\* the given setup card
State_start_turn(l, setup, sh) ==
    Lobby_start_turn([l EXCEPT !.setups = dump(@, One(setup))], sh)

\* Judgement.finish_game
finish_game(l, setup, winner) == transit_to(l, NewState("Finished", setup, None, winner))

\* ------------------------------------------------------------- Finished
\* Finished.continue_game
continue_game(l, player, sh) ==
    IF player # l.owner THEN Raise(l, "PlayerNotOwnerError")
    ELSE State_start_turn([l EXCEPT !.is_game_endless = TRUE], l.state.setup, sh)

\* Finished.start_game
Finished_start_game(l, player, lobby_settings, new_setups, new_punchlines, sh) ==
    LET ap == SeqRange(all_players(l))
        l1 == [l EXCEPT !.table = <<>>,
                        !.turn_count = 0,
                        !.restarts = @ + 1,
                        !.hand = [p \in Players |-> IF p \in ap THEN EmptyBag ELSE @[p]],
                        !.score = [p \in Players |-> IF p \in ap THEN 0 ELSE @[p]]]
        l2 == transit_to(l1, NewState("Gathering", None, None, None))
    IN  Gathering_start_game(l2, player, lobby_settings, new_setups, new_punchlines, sh)

\* --------------------------------------------- Lobby: roster management
\* Lobby.add_player
add_player(l, player) == [l EXCEPT !.players = Append(@, player), !.leads = <<>>]

RECURSIVE top_up(_, _, _)
\* while len(player.hand) < self.HAND_SIZE: player.add_punchline_card(...)
top_up(l, player, sh) ==
    IF ~Ok(l) \/ BagCardinality(l.hand[player]) >= HAND_SIZE THEN l
    ELSE top_up(add_punchline_card(l, player, sh), player, sh)

\* Lobby.connect without the removal from the grave
Lobby_connect_grave(l, player, sh) ==
    LET l1 == IF player \notin SeqRange(all_players(l))
              THEN IF player \notin l.grave THEN Raise(l, "UnknownPlayerError")
                   ELSE add_player(l, player)
              ELSE l
    IN  IF Ok(l1) /\ l1.state.name # "Gathering" THEN top_up(l1, player, sh) ELSE l1

\* Lobby.connect
Lobby_connect(l, player, sh) ==
    LET l1 == IF player \notin SeqRange(all_players(l))
              THEN IF player \notin l.grave THEN Raise(l, "UnknownPlayerError")
                   ELSE add_player([l EXCEPT !.grave = @ \ {player}], player)
              ELSE l
    IN  IF Ok(l1) /\ l1.state.name # "Gathering" THEN top_up(l1, player, sh) ELSE l1

\* State.remove_player and its overrides
State_remove_player(l, player, ch, sh) ==
    CASE l.state.name = "Turns" -> Turns_remove_player(l, player, ch, sh)
      [] l.state.name = "Judgement" -> Judgement_remove_player(l, player)
      [] OTHER -> l

\* Lobby.remove_player
Lobby_remove_player(l, player, ch, sh) ==
    LET l0 == [l EXCEPT !.removals = @ + 1, !.leads = <<>>]
        l1 == IF player = l0.lead THEN [l0 EXCEPT !.lead = None] ELSE l0
        i == IF \E k \in 1..Len(l1.players) : l1.players[k] = player
             THEN Min({k \in 1..Len(l1.players) : l1.players[k] = player}) ELSE 0
        l2 == IF i # 0 THEN [l1 EXCEPT !.players = RemoveAt(@, i)] ELSE l1
        l3 == IF player = l2.owner THEN change_owner(l2) ELSE l2
        l4 == [l3 EXCEPT !.grave = @ \cup {player}]
        t == card_on_table_of(l4, player)
        l5 == IF t # 0
              THEN [l4 EXCEPT !.punchlines = dump(@, One(l4.table[t].card)),
                              !.table = RemoveAt(@, t)]
              ELSE l4
    IN  State_remove_player(l5, player, ch, sh)

\* --------------------------------------- dispatch on the current phase
\* self.lobby.state.start_game: Gathering and Finished define it, State does not
State_start_game(l, player, lobby_settings, new_setups, new_punchlines, sh) ==
    CASE l.state.name = "Gathering" ->
             Gathering_start_game(l, player, lobby_settings, new_setups, new_punchlines, sh)
      [] l.state.name = "Finished" ->
             Finished_start_game(l, player, lobby_settings, new_setups, new_punchlines, sh)
      [] OTHER -> Raise(l, "AttributeError")

\* State.make_turn and Turns.make_turn
State_make_turn(l, player, card, ch, sh) ==
    IF l.state.name = "Turns" THEN Turns_make_turn(l, player, card, ch, sh)
    ELSE Raise(l, "Exception")

\* State.refresh_hand and Turns.refresh_hand
State_refresh_hand(l, player, sh) ==
    IF l.state.name = "Turns" THEN Turns_refresh_hand(l, player, sh)
    ELSE Raise(l, "Exception")

\* State.open_table_card and Judgement.open_table_card
State_open_table_card(l, player, card_on_table) ==
    IF l.state.name = "Judgement" THEN open_table_card(l, player, card_on_table)
    ELSE Raise(l, "Exception")

\* State.pick_turn_winner and Judgement.pick_turn_winner
State_pick_turn_winner(l, player, card) ==
    IF l.state.name = "Judgement" THEN pick_turn_winner(l, player, card)
    ELSE Raise(l, "Exception")

\* State.continue_game and Finished.continue_game
State_continue_game(l, player, sh) ==
    IF l.state.name = "Finished" THEN continue_game(l, player, sh)
    ELSE Raise(l, "Exception")

\* State.end_turn and Turns.end_turn
State_end_turn(l, ch, sh) ==
    IF l.state.name = "Turns" THEN Turns_end_turn(l, ch, sh)
    ELSE Raise(l, "Exception")

\* --------------------------------------------------------------- Player
\* Player.connect
Player_connect(l, player, sh) ==
    LET l1 == Lobby_connect(l, player, sh)
    IN  IF Ok(l1)
        THEN [l1 EXCEPT !.is_connected[player] = TRUE, !.dropped = @ \ {player}]
        ELSE l1

\* Player.disconnect (Lobby.disconnect only notifies)
Player_disconnect(l, player) ==
    [l EXCEPT !.is_connected[player] = FALSE,
              !.disconnects = @ + 1,
              !.dropped = IF l.state.name = "Turns" /\ ~l.is_ready[player]
                          THEN @ \cup {player} ELSE @]

\* ------------------------------------------------------- state and steps
Cur ==
    [players |-> players, lead |-> lead, owner |-> owner, grave |-> grave,
     table |-> table, punchlines |-> punchlines, setups |-> setups,
     settings |-> settings, turn_count |-> turn_count,
     is_game_endless |-> is_game_endless, state |-> state, hand |-> hand,
     score |-> score, is_ready |-> is_ready, is_connected |-> is_connected,
     tasks |-> tasks, epoch |-> epoch, end_turn_runs |-> end_turn_runs,
     refreshes |-> refreshes, removals |-> removals,
     disconnects |-> disconnects, restarts |-> restarts,
     installed |-> installed, dropped |-> dropped,
     leads |-> leads, exc |-> "ok"]

\* the lobby after a handler returned or raised
Set(l) ==
    /\ players' = l.players
    /\ lead' = l.lead
    /\ owner' = l.owner
    /\ grave' = l.grave
    /\ table' = l.table
    /\ punchlines' = l.punchlines
    /\ setups' = l.setups
    /\ settings' = l.settings
    /\ turn_count' = l.turn_count
    /\ is_game_endless' = l.is_game_endless
    /\ state' = l.state
    /\ hand' = l.hand
    /\ score' = l.score
    /\ is_ready' = l.is_ready
    /\ is_connected' = l.is_connected
    /\ tasks' = l.tasks
    /\ epoch' = l.epoch
    /\ end_turn_runs' = l.end_turn_runs
    /\ refreshes' = l.refreshes
    /\ removals' = l.removals
    /\ disconnects' = l.disconnects
    /\ restarts' = l.restarts
    /\ installed' = l.installed
    /\ dropped' = l.dropped
    /\ leads' = l.leads

Participants == SeqRange(all_players(Cur))
Joined == Participants \cup grave
\* the players whose requests reach the lobby: connected participants
Actors == {p \in Participants : is_connected[p]}

NoChoice == [p \in Players |-> None]

\* what random.choice(player.hand) can return for the player Turns.end_turn
\* submits for (None: the hand is empty, or no card is drawn for the player)
Option(p) ==
    IF p \in SeqRange(players) /\ is_connected[p] /\ ~is_ready[p] /\ hand[p] # EmptyBag
    THEN DOMAIN hand[p]
    ELSE {None}

Choices ==
    {ch \in [Players -> UNION {Option(p) : p \in Players}] :
        \A p \in Players : ch[p] \in Option(p)}

\* the decks and settings a caller hands to start_game
NewSettings(b) ==
    {[turn_duration |-> td, winning_score |-> ws] :
        td \in b.durations, ws \in b.scores}

NewSetups(d) == Deck([i \in 1..NumSetups |-> i], d)
NewPunchlines(n, d) == Deck([i \in 1..n |-> i], d)

\* Lobby(owner=..., state=Gathering()) as the tests construct it
Init ==
    /\ players = <<>>
    /\ lead = None
    /\ owner = 1
    /\ grave = {}
    /\ table = <<>>
    /\ punchlines = [cards |-> <<>>, dump |-> EmptyBag]
    /\ setups = [cards |-> <<>>, dump |-> EmptyBag]
    /\ settings = [turn_duration |-> None, winning_score |-> 1]
    /\ turn_count = 0
    /\ is_game_endless = FALSE
    /\ state = NewState("Gathering", None, None, None)
    /\ hand = [p \in Players |-> EmptyBag]
    /\ score = [p \in Players |-> 0]
    /\ is_ready = [p \in Players |-> FALSE]
    /\ is_connected = [p \in Players |-> FALSE]
    /\ tasks = {}
    /\ epoch = 0
    /\ end_turn_runs = 0
    /\ refreshes = 0
    /\ removals = 0
    /\ disconnects = 0
    /\ restarts = 0
    /\ installed = {}
    /\ dropped = {}
    /\ leads = <<>>

\* -------------------------------------------------------------- actions
\* Each action is one call of a public method, or one scheduled task waking
\* up; b holds the limits of the specification the action is part of.  A call
\* the current phase does not support raises before it changes anything, so
\* the actions are enabled in the phases that support them.

\* Lobby.add_player of the next player who never joined
AddPlayer(b) ==
    \E p \in b.players \ Joined :
        /\ p = Min(b.players \ Joined)
        /\ Set(add_player(Cur, p))

\* Player.connect of a player who is not connected or was removed
Connect ==
    \E p \in Joined, sh \in Shuffles :
        /\ ~is_connected[p] \/ p \in grave
        /\ Set(Player_connect(Cur, p, sh))

\* Player.disconnect of a connected player
Disconnect(b) ==
    \E p \in Joined :
        /\ is_connected[p]
        /\ disconnects < b.disconnect
        /\ Set(Player_disconnect(Cur, p))

\* Lobby.remove_player of a participant
RemovePlayer(b) ==
    \E p \in Participants, sh \in Shuffles :
        /\ removals < b.remove
        /\ Set(Lobby_remove_player(Cur, p, NoChoice, sh))

\* Player.start_game
StartGame(b) ==
    \E p \in Actors, st \in NewSettings(b), n \in b.cards, d \in b.decks,
       sh \in Shuffles :
        /\ state.name \in {"Gathering", "Finished"}
        /\ epoch < b.epoch
        /\ Set(State_start_game(Cur, p, st, NewSetups(d), NewPunchlines(n, d), sh))

\* Player.make_turn with the lowest card of the hand
MakeTurn ==
    \E p \in Actors, sh \in Shuffles :
        /\ state.name = "Turns"
        /\ hand[p] # EmptyBag
        /\ Set(State_make_turn(Cur, p, Min(DOMAIN hand[p]), NoChoice, sh))

\* Player.refresh_hand
RefreshHand(b) ==
    \E p \in Actors, sh \in Shuffles :
        /\ state.name = "Turns"
        /\ refreshes < b.refresh
        /\ Set(State_refresh_hand(Cur, p, sh))

\* Player.open_table_card: the entries are revealed in table order
OpenTableCard ==
    \E p \in Actors, i \in 1..Len(table) :
        /\ state.name = "Judgement"
        /\ \A j \in 1..(i - 1) : table[j].is_open
        /\ ~table[i].is_open
        /\ Set(State_open_table_card(Cur, p, i))

\* Player.pick_turn_winner with the card of a table entry
PickTurnWinner ==
    \E p \in Actors, i \in 1..Len(table) :
        /\ state.name = "Judgement"
        /\ Set(State_pick_turn_winner(Cur, p, i))

\* Player.continue_game
ContinueGame(b) ==
    \E p \in Actors, sh \in Shuffles :
        /\ state.name = "Finished"
        /\ epoch < b.epoch
        /\ Set(State_continue_game(Cur, p, sh))

\* the turn_timer task of Lobby.start_turn wakes up from its sleep
TurnTimer ==
    \E t \in tasks, ch \in Choices, sh \in Shuffles :
        /\ t.kind = "turn_timer"
        /\ Set(State_end_turn([Cur EXCEPT !.tasks = @ \ {t}], ch, sh))

\* the start_turn task of Judgement.pick_turn_winner wakes up from its sleep
StartTurnTask(b) ==
    \E t \in tasks, sh \in Shuffles :
        /\ t.kind = "start_turn"
        /\ epoch < b.epoch
        /\ Set(State_start_turn([Cur EXCEPT !.tasks = @ \ {t}], t.setup, sh))

\* the finish_game task of Judgement.pick_turn_winner wakes up from its sleep
FinishGameTask ==
    \E t \in tasks :
        /\ t.kind = "finish_game"
        /\ Set(finish_game([Cur EXCEPT !.tasks = @ \ {t}], t.setup, t.winner))

\* ------------------------------------------------------- specifications
\* Two players, no redeal: the owner and one more player, with disconnects,
\* removals, reconnects, restarts and the round timer.
Limits ==
    [players |-> {1, 2}, epoch |-> MaxEpoch, remove |-> MaxRemove,
     disconnect |-> MaxDisconnect, durations |-> {None, 30}, scores |-> {1},
     cards |-> {NumCards}, decks |-> {"keep"}]

Next ==
    \/ AddPlayer(Limits)
    \/ Connect
    \/ Disconnect(Limits)
    \/ RemovePlayer(Limits)
    \/ StartGame(Limits)
    \/ MakeTurn
    \/ OpenTableCard
    \/ PickTurnWinner
    \/ ContinueGame(Limits)
    \/ TurnTimer
    \/ StartTurnTask(Limits)
    \/ FinishGameTask

Spec == Init /\ [][Next]_vars

\* Three players who never disconnect, untimed rounds: joins, removals,
\* reconnects from the grave and restarts.
Limits3 ==
    [players |-> {1, 2, 3}, epoch |-> MaxEpoch, remove |-> MaxRemove,
     durations |-> {None}, scores |-> {1}, cards |-> {NumCards},
     decks |-> {"keep"}]

Next3 ==
    \/ AddPlayer(Limits3)
    \/ Connect
    \/ RemovePlayer(Limits3)
    \/ StartGame(Limits3)
    \/ MakeTurn
    \/ OpenTableCard
    \/ PickTurnWinner
    \/ ContinueGame(Limits3)
    \/ StartTurnTask(Limits3)
    \/ FinishGameTask

Spec3 == Init /\ [][Next3]_vars

\* Two players who redeal their hands, with a punchline deck that is ample
\* or that has one card more than the two hands.
LimitsRefresh ==
    [players |-> {1, 2}, epoch |-> MaxEpoch, remove |-> MaxRemove,
     refresh |-> MaxRefresh, durations |-> {None, 30}, scores |-> {1},
     cards |-> {SmallDeck, NumCards}, decks |-> {"keep"}]

NextRefresh ==
    \/ AddPlayer(LimitsRefresh)
    \/ Connect
    \/ RemovePlayer(LimitsRefresh)
    \/ StartGame(LimitsRefresh)
    \/ MakeTurn
    \/ RefreshHand(LimitsRefresh)
    \/ OpenTableCard
    \/ PickTurnWinner
    \/ ContinueGame(LimitsRefresh)
    \/ TurnTimer
    \/ StartTurnTask(LimitsRefresh)
    \/ FinishGameTask

SpecRefresh == Init /\ [][NextRefresh]_vars

\* Three players who stay: no removal, no disconnect, untimed rounds, and
\* enough rounds for the lead to go round the table.
LimitsRounds ==
    [players |-> {1, 2, 3}, epoch |-> MaxEpoch + 1, durations |-> {None},
     scores |-> {1}, cards |-> {NumCards}, decks |-> {"keep"}]

NextRounds ==
    \/ AddPlayer(LimitsRounds)
    \/ Connect
    \/ StartGame(LimitsRounds)
    \/ MakeTurn
    \/ OpenTableCard
    \/ PickTurnWinner
    \/ ContinueGame(LimitsRounds)
    \/ StartTurnTask(LimitsRounds)
    \/ FinishGameTask

SpecRounds == Init /\ [][NextRounds]_vars

\* ----------------------------------------------------------- properties
\* the number of places that hold the punchline card c
CardCount(c) ==
    Cardinality({i \in 1..Len(punchlines.cards) : punchlines.cards[i] = c})
    + Count(c, punchlines.dump)
    + Cardinality({i \in 1..Len(table) : table[i].card = c})
    + Count(c, hand[1]) + Count(c, hand[2]) + Count(c, hand[3])

\* C1: from the first start_game to the next restart, every card of the
\* installed punchline deck is in exactly one place (draw pile, discard pile,
\* a hand of a roster, lead or grave player, a table entry), and no other
\* card is anywhere.
C1_CardsConserved ==
    (epoch >= 1 /\ restarts = 0) =>
        \A c \in Cards : CardCount(c) = IF c \in installed THEN 1 ELSE 0

\* every connected participant of the lobby r holds HAND_SIZE cards
HandsFull(r) ==
    \A p \in SeqRange(all_players(r)) :
        r.is_connected[p] => BagCardinality(r.hand[p]) = HAND_SIZE

\* the settings and decks a start_game call may carry
AnySettings == NewSettings([durations |-> {None, 30}, scores |-> {1}])

\* the lobby r is the lobby after a start_turn that ran to its end
Completed(r) == Ok(r) /\ r.epoch = epoch + 1

\* C2: whenever start_turn completes, started by start_game, by the start_turn
\* task after pick_turn_winner or by continue_game, every connected
\* participant (lead and roster) holds exactly HAND_SIZE cards.
C2_HandsFullAfterStartTurn ==
    /\ state.name \in {"Gathering", "Finished"} =>
           \A p \in Actors, st \in AnySettings, sh \in Shuffles :
               LET r == State_start_game(Cur, p, st, NewSetups("keep"),
                                         NewPunchlines(NumCards, "keep"), sh)
               IN  Completed(r) => HandsFull(r)
    /\ \A t \in tasks, sh \in Shuffles :
           t.kind = "start_turn" =>
               LET r == State_start_turn([Cur EXCEPT !.tasks = @ \ {t}], t.setup, sh)
               IN  Completed(r) => HandsFull(r)
    /\ state.name = "Finished" =>
           \A p \in Actors, sh \in Shuffles :
               LET r == State_continue_game(Cur, p, sh)
               IN  Completed(r) => HandsFull(r)

\* C3: the table never holds two entries of the same participant.
C3_OneEntryPerParticipant ==
    \A i, j \in 1..Len(table) : table[i].player = table[j].player => i = j

\* A participant who has a table entry submits another card: the entry is
\* replaced, the table is as long as before.
C3_Witness ==
    /\ state.name = "Turns"
    /\ \E p \in Actors :
           /\ card_on_table_of(Cur, p) # 0
           /\ hand[p] # EmptyBag
           /\ LET c == Min(DOMAIN hand[p])
                  r == State_make_turn(Cur, p, c, NoChoice, "keep")
              IN  /\ Ok(r)
                  /\ Len(r.table) = Len(table)
                  /\ \E i \in 1..Len(r.table) :
                         r.table[i].player = p /\ r.table[i].card = c

\* the participant p has an entry on the table t
HasEntry(t, p) == \E i \in 1..Len(t) : t[i].player = p

\* C4: outside endless mode, after a pick_turn_winner that brought the
\* winner's score to winning_score, the finish_game task for that winner is
\* pending, so that the next phase is Finished with that winner.
C4_WinningScoreFinishes ==
    (/\ state.name = "Judgement"
     /\ state.winner # None
     /\ ~is_game_endless
     /\ score[state.winner] = settings.winning_score)
    => \E t \in tasks : t.kind = "finish_game" /\ t.winner = state.winner

\* in a step that resolves the round, p is a roster player who disconnected
\* during the round before submitting a card and has stayed away
Skipped(p) ==
    /\ state.name = "Turns"
    /\ state'.name = "Judgement"
    /\ p \in dropped
    /\ p \in SeqRange(players) \cap SeqRange(players')
    /\ ~is_connected[p]
    /\ ~is_ready[p]
    /\ hand[p] # EmptyBag

FirstConnected(ap, conn) ==
    LET C == {i \in 1..Len(ap) : conn[ap[i]]}
    IN  IF C = {} THEN None ELSE ap[Min(C)]

C7_RosterDisjoint ==
    /\ lead # None => lead \notin SeqRange(players) \cup grave
    /\ SeqRange(players) \cap grave = {}
    /\ \A i, j \in 1..Len(players) : players[i] = players[j] => i = j

\* A removed participant is back in the roster after a lead rotation.
C7_Witness ==
    /\ removals >= 1
    /\ grave = {}
    /\ epoch = MaxEpoch
    /\ lead # None
    /\ players # <<>>

\* the call that returned r left the phase, round counter, table, decks,
\* endless flag, hands and scores as they are
SameLobby(r) ==
    /\ r.state = state
    /\ r.turn_count = turn_count
    /\ r.table = table
    /\ r.punchlines = punchlines
    /\ r.setups = setups
    /\ r.is_game_endless = is_game_endless
    /\ r.hand = hand
    /\ r.score = score

\* C8: start_game (Gathering, Finished) and continue_game (Finished) of a
\* participant who is not the owner raise PlayerNotOwnerError and change
\* nothing of the lobby.
C8_NotOwnerLeavesLobby ==
    \A p \in Participants \ {owner} :
        /\ state.name \in {"Gathering", "Finished"} =>
               \A st \in AnySettings, sh \in Shuffles :
                   LET r == State_start_game(Cur, p, st, NewSetups("keep"),
                                             NewPunchlines(NumCards, "keep"), sh)
                   IN  r.exc = "PlayerNotOwnerError" /\ SameLobby(r)
        /\ state.name = "Finished" =>
               \A sh \in Shuffles :
                   LET r == State_continue_game(Cur, p, sh)
                   IN  r.exc = "PlayerNotOwnerError" /\ SameLobby(r)

\* a round timer is pending only in the Turns phase of the round that
\* created it, before any end_turn of that round
TimerInItsRound ==
    \A t \in tasks :
        t.kind = "turn_timer" =>
            /\ state.name = "Turns"
            /\ state.timer = t.id
            /\ t.id = epoch
            /\ end_turn_runs = 0

\* C9: the round timer takes no effect after its round is resolved: a pending
\* timer belongs to the unresolved current round (all-ready cancels it), and
\* end_turn runs at most once per round.
C9_TimerOncePerRound ==
    /\ TimerInItsRound
    /\ (state.name = "Turns" /\ settings.turn_duration # None) => end_turn_runs <= 1

\* C10: every pending callback performs its phase transition when it fires:
\* the round timer Turns to Judgement, the start_turn task Judgement to Turns
\* of the next round, the finish_game task Judgement to Finished.
C10_CallbacksTransit ==
    \A t \in tasks :
        LET l == [Cur EXCEPT !.tasks = @ \ {t}]
        IN  /\ t.kind = "turn_timer" =>
                   \A ch \in Choices, sh \in Shuffles :
                       LET r == State_end_turn(l, ch, sh)
                       IN  Ok(r) /\ r.state.name = "Judgement"
            /\ t.kind = "start_turn" =>
                   \A sh \in Shuffles :
                       LET r == State_start_turn(l, t.setup, sh)
                       IN  Ok(r) /\ r.state.name = "Turns" /\ r.epoch = epoch + 1
            /\ t.kind = "finish_game" =>
                   LET r == finish_game(l, t.setup, t.winner)
                   IN  Ok(r) /\ r.state.name = "Finished"

\* every connected roster participant of the lobby r is ready
AllReady(r) ==
    \A p \in SeqRange(r.players) : r.is_connected[p] => r.is_ready[p]

\* the call that returned r resolved the round: Judgement, timer cancelled
Resolved(r) ==
    /\ r.state.name = "Judgement"
    /\ TimerTask(state.timer) \notin r.tasks

\* the call that returned r made the last connected roster participants
\* who were not ready ready, or took them out of the count
LeavesAllReady(r) == ~AllReady(Cur) /\ AllReady(r)

\* a disconnect in Turns that leaves every connected roster participant
\* ready resolves the round
DisconnectResolves ==
    state.name = "Turns" =>
        \A p \in Joined :
            is_connected[p] =>
                LET r == Player_disconnect(Cur, p)
                IN  LeavesAllReady(r) => Resolved(r)

\* C11: in Turns, a make_turn, a remove_player or a disconnect that leaves
\* every connected roster participant ready cancels the round timer and
\* resolves the round into Judgement within the same call.
C11_AllReadyResolves ==
    /\ state.name = "Turns" =>
           \A p \in Actors, sh \in Shuffles :
               hand[p] # EmptyBag =>
                   LET r == State_make_turn(Cur, p, Min(DOMAIN hand[p]), NoChoice, sh)
                   IN  LeavesAllReady(r) => Resolved(r)
    /\ state.name = "Turns" =>
           \A p \in Participants, sh \in Shuffles :
               LET r == Lobby_remove_player(Cur, p, NoChoice, sh)
               IN  LeavesAllReady(r) => Resolved(r)
    /\ DisconnectResolves

\* what a draw from the deck d does, for every outcome of the shuffle
DrawContract(d) ==
    \A sh \in Shuffles :
        LET r == get_card(d, sh)
        IN  /\ r.ok <=> (d.cards # <<>> \/ d.dump # EmptyBag)
            /\ r.ok => SeqToBag(r.deck.cards) (+) r.deck.dump (+) One(r.card)
                           = SeqToBag(d.cards) (+) d.dump
            /\ (d.cards = <<>> /\ d.dump # EmptyBag) =>
                   /\ r.deck.dump = EmptyBag
                   /\ Count(r.card, d.dump) > 0
                   /\ SeqToBag(r.deck.cards) (+) One(r.card) = d.dump
            /\ d.cards # <<>> =>
                   /\ r.deck.dump = d.dump
                   /\ r.deck.cards \o <<r.card>> = d.cards

\* C12: a draw succeeds exactly when the draw pile or the discard pile holds
\* a card; from an empty draw pile it moves the whole discard pile into the
\* draw pile, empties the discard pile and returns one of those cards. Stated
\* of the punchline and setup decks of every reachable lobby.
C12_DrawContract == DrawContract(punchlines) /\ DrawContract(setups)

\* The punchline draw pile is empty and the discard pile is not, in a round
\* in which cards are drawn.
C12_Witness ==
    /\ state.name = "Turns"
    /\ punchlines.cards = <<>>
    /\ BagCardinality(punchlines.dump) >= 2

\* the last n elements of the sequence s
LastN(s, n) == SubSeq(s, Len(s) - n + 1, Len(s))

\* a start_turn took the new lead from the front of the roster and sent the
\* outgoing lead to its back
Rotation ==
    epoch' = epoch + 1 =>
        LET q == IF lead = None THEN players ELSE Append(players, lead)
        IN  /\ lead' = Head(q)
            /\ players' = Tail(q)
            /\ (epoch = 0 /\ removals = 0) => lead' = 1

\* with n participants and no join or removal, the leads of n consecutive
\* rounds are the n participants, each once
EachLeadsOnce ==
    LET n == Len(all_players(Cur))
    IN  (lead # None /\ Len(leads) >= n) =>
            /\ SeqRange(LastN(leads, n)) = Participants
            /\ \A i, j \in 1..n : LastN(leads, n)[i] = LastN(leads, n)[j] => i = j

\* C13: lead rotation is round-robin: the first lead is the first roster
\* participant (P1 in a fresh lobby), every start_turn sends the outgoing
\* lead to the back of the roster and takes the new lead from its front, so
\* that without joins and removals each of n participants leads once in any
\* n consecutive rounds.
C13_RoundRobin == [][Rotation]_vars /\ []EachLeadsOnce

\* Three participants have led three consecutive rounds, P1 the first.
C13_Witness ==
    /\ Len(all_players(Cur)) = 3
    /\ leads = <<1, 2, 3>>
    /\ lead = 3
    /\ players = <<1, 2>>

\* the positions of the entries of the participant p on the table t
EntriesOf(t, p) == {i \in 1..Len(t) : t[i].player = p}

\* C14: when a step resolves the round into Judgement, every connected
\* roster participant has exactly one table entry, and an entry placed by the
\* resolution itself holds a card taken out of that participant's hand.
C14_EntryPerConnected ==
    [][(state.name = "Turns" /\ state'.name = "Judgement") =>
           \A p \in SeqRange(players') :
               is_connected'[p] =>
                   /\ Cardinality(EntriesOf(table', p)) = 1
                   /\ \A i \in EntriesOf(table', p) :
                          ~HasEntry(table, p) =>
                              /\ Count(table'[i].card, hand[p]) > 0
                              /\ hand'[p] = hand[p] (-) One(table'[i].card)]_vars

\* C15: in Turns, refresh_hand of a participant raises
\* PlayerAlreadyReadyError exactly when the participant has a table entry.
C15_AlreadyReadyIffEntry ==
    state.name = "Turns" =>
        \A p \in Actors, sh \in Shuffles :
            State_refresh_hand(Cur, p, sh).exc = "PlayerAlreadyReadyError"
                <=> HasEntry(table, p)

\* a step lowers a score only as refresh_hand does (by one, from a score that
\* is not negative) or as a restart does (to zero)
ScoreLowered ==
    \A p \in Players :
        score'[p] < score[p] =>
            \/ /\ refreshes' = refreshes + 1
               /\ score[p] >= 0
               /\ score'[p] = score[p] - 1
            \/ /\ restarts' = restarts + 1
               /\ score'[p] = 0

\* C16: no score is ever below -1; only refresh_hand lowers a score, by one
\* and from a score that is not negative, and only a restart resets it to 0.
C16_ScoreFloor == [](\A p \in Players : score[p] >= -1) /\ [][ScoreLowered]_vars

\* After a second redeal was asked for, a participant stands at -1 and a
\* further refresh_hand raises ScoreTooLowError and leaves the score at -1.
C16_Witness ==
    /\ state.name = "Turns"
    /\ refreshes >= 2
    /\ \E p \in Actors :
           /\ score[p] = -1
           /\ LET r == State_refresh_hand(Cur, p, "keep")
              IN  r.exc = "ScoreTooLowError" /\ r.score[p] = -1

\* C17: the removal of the lead during Judgement concludes the round: the
\* lobby is never in Judgement with no lead while no winner is picked, and a
\* remove_player of the lead in Judgement never returns with the lobby so.
C17_LeadRemovalConcludes ==
    /\ ~(state.name = "Judgement" /\ lead = None /\ state.winner = None)
    /\ (state.name = "Judgement" /\ lead # None /\ state.winner = None) =>
           \A sh \in Shuffles :
               LET r == Lobby_remove_player(Cur, lead, NoChoice, sh)
               IN  Ok(r) /\ ~(r.state.name = "Judgement" /\ r.lead = None)

Phases == {"Gathering", "Turns", "Judgement", "Finished"}

\* a task of the kind k was pending and is no longer
Fired(k) == \E t \in tasks : t.kind = k /\ t \notin tasks'

\* the phase changes a step may make; a restart passes through Gathering
\* within the start_game call and ends in Turns
PhaseEdge ==
    state'.name # state.name =>
        \/ state.name = "Gathering" /\ state'.name = "Turns"
        \/ state.name = "Turns" /\ state'.name = "Judgement"
        \/ state.name = "Judgement" /\ state'.name = "Turns" /\ Fired("start_turn")
        \/ state.name = "Judgement" /\ state'.name = "Finished" /\ Fired("finish_game")
        \/ state.name = "Finished" /\ state'.name = "Turns"

\* C18: one phase is active at a time and it changes only from Gathering to
\* Turns, Turns to Judgement, Judgement to Turns (start_turn task), Judgement
\* to Finished (finish_game task) and Finished to Turns (continue_game, or a
\* restart passing through Gathering); every other call leaves the phase.
C18_PhaseEdges == [](state.name \in Phases) /\ [][PhaseEdge]_vars

\* the delays a successful pick_turn_winner leaves pending
Delays(l) == {t \in l.tasks : t.kind \in {"start_turn", "finish_game"}}

\* the cards of the table entries
TableCards(l) == SeqToBag([i \in 1..Len(l.table) |-> l.table[i].card])

\* what a pick_turn_winner call of player p for the card of entry c (0: a card
\* on no entry) may do: when it returns, no delay was pending, one is pending
\* now, the owner of the entry has one point more and nobody else's score
\* differs, the table cards are on the punchline dump and the table is empty;
\* when it raises, every score is as before
PickOutcome(p, c) ==
    LET r == State_pick_turn_winner(Cur, p, c)
    IN  IF Ok(r)
        THEN /\ Delays(Cur) = {}
             /\ c \in 1..Len(table)
             /\ r.score = [score EXCEPT ![table[c].player] = @ + 1]
             /\ r.table = <<>>
             /\ r.punchlines.dump = punchlines.dump (+) TableCards(Cur)
             /\ r.punchlines.cards = punchlines.cards
             /\ Delays(r) # {}
        ELSE r.score = score

PickContract == \A p \in Players, c \in 0..Len(table) : PickOutcome(p, c)

\* while the lobby stays in Judgement the scores change in one step only,
\* the one that starts the delay
OnePick ==
    (state.name = "Judgement" /\ state'.name = "Judgement" /\ score' # score) =>
        Delays(Cur) = {} /\ tasks' \ tasks # {} /\ table' = <<>>

\* C19: in a round at most one pick_winner succeeds; it adds one point to the
\* owner of the picked entry and to nobody else, moves every table card to
\* the punchline dump and empties the table; a pick_winner made while the
\* start_turn or finish delay is pending raises and changes no score.
C19_OnePickPerRound == []PickContract /\ [][OnePick]_vars

\* a winner was picked, the delay is pending and the lead picks again
C19_Witness ==
    /\ state.name = "Judgement"
    /\ Delays(Cur) # {}
    /\ state.winner # None
    /\ score[state.winner] >= 1
    /\ lead \in Actors
    /\ ~Ok(State_pick_turn_winner(Cur, lead, 0))

\* C20: a refresh_hand that raises ScoreTooLowError leaves the hand and the
\* score of the participant and the punchline cards and dump as they were.
C20_ScoreTooLowUnchanged ==
    \A p \in Actors, sh \in Shuffles :
        LET r == State_refresh_hand(Cur, p, sh)
        IN  r.exc = "ScoreTooLowError" =>
                /\ r.hand[p] = hand[p]
                /\ r.score[p] = score[p]
                /\ r.punchlines = punchlines

\* a step in which Finished.start_game ran
Restarted == restarts' = restarts + 1

EndlessForever ==
    is_game_endless => is_game_endless' /\ state'.name # "Finished"

C22_JudgementTableNonEmpty ==
    (state.name = "Judgement" /\ state.winner = None) => Len(table) >= 1

====
